---- MODULE Spec2Model ----
(***************************************************************************)
(* Model of footron_protocol/messages.py: the MessageType enumeration, the *)
(* dataclass message variants, the message_type_map registry and the       *)
(* serialize / deserialize codec.                                          *)
(*                                                                         *)
(* Python values are tagged records [kind, val]; a document (JsonDict) is  *)
(* a function from key strings to values; a message is a record holding    *)
(* its class name and its dataclass fields.  Exceptions are outcomes.      *)
(***************************************************************************)
EXTENDS Integers, FiniteSets, Sequences, TLC

\* ----------------------------------------------------------------------
\* Bounds of the model
\* ----------------------------------------------------------------------

\* Largest number of keys other than `type` and `version` in an input document.
MaxOther == 3

\* ----------------------------------------------------------------------
\* Python values
\* ----------------------------------------------------------------------

None == [kind |-> "none", val |-> "None"]

StrV(s) == [kind |-> "str", val |-> s]

IntV(n) == [kind |-> "int", val |-> ToString(n)]

\* The member of the MessageType enumeration whose value is the string t.
Member(t) == [kind |-> "enum", val |-> t]

PROTOCOL_VERSION == 1

FIELD_MSG_TYPE == "type"

\* The values of the members of enum MessageType.
MessageType ==
  {"ahb", "chb", "con", "acc", "cap", "app", "err", "dse", "lcy"}

\* MessageType(v): lookup of a member by value.  A member is returned as
\* is, a string that is the value of a member gives that member, anything
\* else raises ValueError.
MessageTypeCall(v) ==
  IF v.kind = "enum" /\ v.val \in MessageType
    THEN [ok |-> TRUE, member |-> v]
    ELSE IF v.kind = "str" /\ v.val \in MessageType
      THEN [ok |-> TRUE, member |-> Member(v.val)]
      ELSE [ok |-> FALSE, member |-> None]

\* ----------------------------------------------------------------------
\* The dataclasses
\* ----------------------------------------------------------------------

\* Direct base classes, as written in each class statement.
Bases(c) ==
  CASE c = "HeartbeatMessage" -> {"BaseMessage", "ClientBoundMixin"}
    [] c = "ClientHeartbeatMessage" -> {"HeartbeatMessage"}
    [] c = "ConnectMessage" -> {"BaseMessage"}
    [] c = "AccessMessage" -> {"BaseMessage"}
    [] c = "BaseApplicationMessage" -> {"BaseMessage"}
    [] c = "ApplicationClientMessage" -> {"BaseApplicationMessage"}
    [] c = "ApplicationAppMessage" -> {"BaseApplicationMessage", "ClientBoundMixin"}
    [] c = "ErrorMessage" -> {"BaseMessage"}
    [] c = "DisplaySettingsMessage" -> {"BaseMessage"}
    [] c = "LifecycleMessage" -> {"BaseMessage"}
    [] OTHER -> {}

\* Fields annotated in the body of each class.
OwnFields(c) ==
  CASE c = "BaseMessage" -> {"version", "type"}
    [] c = "ClientBoundMixin" -> {"client", "app"}
    [] c = "HeartbeatMessage" -> {"up"}
    [] c = "ClientHeartbeatMessage" -> {"clients"}
    [] c = "ConnectMessage" -> {"app"}
    [] c = "AccessMessage" -> {"accepted", "client", "app", "reason"}
    [] c = "BaseApplicationMessage" -> {"body", "req"}
    [] c = "ErrorMessage" -> {"error"}
    [] c = "DisplaySettingsMessage" -> {"settings"}
    [] c = "LifecycleMessage" -> {"paused"}
    [] OTHER -> {}

\* Fields annotated with a default (always `= None`) in the body of each class.
OwnDefaults(c) ==
  CASE c = "AccessMessage" -> {"client", "app", "reason"}
    [] c = "BaseApplicationMessage" -> {"req"}
    [] OTHER -> {}

RECURSIVE Fields(_)
\* The dataclass fields of c: its own and those of all its bases.
Fields(c) == OwnFields(c) \cup UNION {Fields(b) : b \in Bases(c)}

RECURSIVE Defaults(_)
\* The fields of c that have a default value.
Defaults(c) == OwnDefaults(c) \cup UNION {Defaults(b) : b \in Bases(c)}

\* The class attribute `type` assigned in the body of each concrete class.
ClassType(c) ==
  CASE c = "HeartbeatMessage" -> "ahb"
    [] c = "ClientHeartbeatMessage" -> "chb"
    [] c = "ConnectMessage" -> "con"
    [] c = "AccessMessage" -> "acc"
    [] c = "ApplicationClientMessage" -> "cap"
    [] c = "ApplicationAppMessage" -> "app"
    [] c = "ErrorMessage" -> "err"
    [] c = "DisplaySettingsMessage" -> "dse"
    [] c = "LifecycleMessage" -> "lcy"

\* The registry with the entry of LIFECYCLE left out.
message_type_map_without_lifecycle ==
  [t \in MessageType \ {"lcy"} |->
    CASE t = "ahb" -> "HeartbeatMessage"
      [] t = "chb" -> "ClientHeartbeatMessage"
      [] t = "con" -> "ConnectMessage"
      [] t = "acc" -> "AccessMessage"
      [] t = "cap" -> "ApplicationClientMessage"
      [] t = "app" -> "ApplicationAppMessage"
      [] t = "err" -> "ErrorMessage"
      [] t = "dse" -> "DisplaySettingsMessage"]

\* Registry from the value of a MessageType member to the message class.
message_type_map ==
  [t \in MessageType |->
    CASE t = "ahb" -> "HeartbeatMessage"
      [] t = "chb" -> "ClientHeartbeatMessage"
      [] t = "con" -> "ConnectMessage"
      [] t = "acc" -> "AccessMessage"
      [] t = "cap" -> "ApplicationClientMessage"
      [] t = "app" -> "ApplicationAppMessage"
      [] t = "err" -> "ErrorMessage"
      [] t = "dse" -> "DisplaySettingsMessage"
      [] t = "lcy" -> "LifecycleMessage"]

\* ----------------------------------------------------------------------
\* Outcomes of a call
\* ----------------------------------------------------------------------

NoDoc == [k \in {} |-> None]

NoMessage == [cls |-> "", fields |-> NoDoc]

Return(m) == [exc |-> "", value |-> m]

Raise(e) == [exc |-> e, value |-> NoMessage]

NoResult == [exc |-> "-", value |-> NoMessage]

\* ----------------------------------------------------------------------
\* BaseMessage.create, serialize, deserialize
\* ----------------------------------------------------------------------

\* cls.create(**kwargs): drop `type`, then call the generated __init__ as
\* cls(type=cls.type, version=PROTOCOL_VERSION, **kwargs).  The call raises
\* TypeError when kwargs repeats the keyword `version`, names a keyword
\* that is not a field, or lacks a field without default.
create(cls, kwargs) ==
  LET kw == [k \in (DOMAIN kwargs) \ {"type"} |-> kwargs[k]]
      given == DOMAIN kw
      required == Fields(cls) \ (Defaults(cls) \cup {"type", "version"})
  IN IF "version" \in given
       THEN Raise("TypeError")
       ELSE IF ~(given \subseteq Fields(cls))
         THEN Raise("TypeError")
         ELSE IF ~(required \subseteq given)
           THEN Raise("TypeError")
           ELSE Return([cls |-> cls,
                        fields |-> [f \in Fields(cls) |->
                          IF f = "type" THEN Member(ClassType(cls))
                          ELSE IF f = "version" THEN IntV(PROTOCOL_VERSION)
                          ELSE IF f \in given THEN kw[f]
                          ELSE None]])

\* serialize(data): every dataclass field of the message, with `type`
\* replaced by the value of the enum member.
serialize(m) ==
  [k \in (DOMAIN m.fields) \cup {"type"} |->
    IF k = "type" THEN StrV(m.fields["type"].val) ELSE m.fields[k]]

\* deserialize without the test for the presence of `type`: the read of
\* data["type"] then raises KeyError on a document that lacks the key.
deserialize_without_presence_test(d) ==
  IF FIELD_MSG_TYPE \notin DOMAIN d
    THEN [result |-> Raise("KeyError"), data |-> d, line |-> 181]
    ELSE LET mt == MessageTypeCall(d[FIELD_MSG_TYPE])
         IN IF ~mt.ok
              THEN [result |-> Raise("ValueError"), data |-> d, line |-> 181]
              ELSE LET d2 == [d EXCEPT ![FIELD_MSG_TYPE] = mt.member]
                       msg_type == d2[FIELD_MSG_TYPE]
                   IN IF msg_type.val \notin DOMAIN message_type_map
                        THEN [result |-> Raise("UnknownMessageTypeError"),
                              data |-> d2, line |-> 185]
                        ELSE [result |-> create(message_type_map[msg_type.val], d2),
                              data |-> d2, line |-> 189]

\* deserialize(data): the outcome, the document as the call leaves it and
\* the source line of the statement that ended the call.
deserialize(d) ==
  IF FIELD_MSG_TYPE \notin DOMAIN d
    THEN [result |-> Raise("InvalidMessageSchemaError"), data |-> d, line |-> 177]
    ELSE LET mt == MessageTypeCall(d[FIELD_MSG_TYPE])
         IN IF ~mt.ok
              THEN [result |-> Raise("ValueError"), data |-> d, line |-> 181]
              ELSE LET d2 == [d EXCEPT ![FIELD_MSG_TYPE] = mt.member]
                       msg_type == d2[FIELD_MSG_TYPE]
                   IN IF msg_type.val \notin DOMAIN message_type_map
                        THEN [result |-> Raise("UnknownMessageTypeError"),
                              data |-> d2, line |-> 185]
                        ELSE [result |-> create(message_type_map[msg_type.val], d2),
                              data |-> d2, line |-> 189]

\* ----------------------------------------------------------------------
\* Inputs
\* ----------------------------------------------------------------------

\* A key no message class declares.
UndeclaredKey == "zzz"

Keys ==
  {"type", "version", "client", "app", "up", "clients", "accepted", "reason",
   "body", "req", "error", "settings", "paused", UndeclaredKey}

OtherKeys == Keys \ {"type", "version"}

\* Opaque field values: the dataclasses do not look at them.
Vals == {StrV("a"), StrV("b")}

\* A string that is not the value of any MessageType member.
UnknownTag == "zzz"

TypeHeaders ==
  {NoDoc} \cup {("type" :> StrV(t)) : t \in MessageType \cup {UnknownTag}}

VersionHeaders == {NoDoc, ("version" :> IntV(PROTOCOL_VERSION))}

Bodies ==
  UNION {[S -> Vals] : S \in {S \in SUBSET OtherKeys : Cardinality(S) <= MaxOther}}

\* Input documents: with or without `type`, with or without `version`,
\* and up to MaxOther other keys.
Documents == {(t @@ v) @@ b : t \in TypeHeaders, v \in VersionHeaders, b \in Bodies}

\* Messages the variant constructors produce: every successful create of a
\* registered class over its own fields, optional fields given, None or absent.
Messages ==
  UNION {
    {create(c, kw).value :
       kw \in {k \in UNION {[S -> Vals \cup {None}] :
                              S \in SUBSET (Fields(c) \ {"type", "version"})} :
               create(c, k).exc = ""}} :
    c \in {message_type_map[t] : t \in DOMAIN message_type_map}}

\* ----------------------------------------------------------------------
\* State
\* ----------------------------------------------------------------------

VARIABLES
  pc,      \* what the caller has done so far
  data,    \* the document the caller holds (the dict passed to deserialize)
  arg,     \* the document as it was when the last call was made
  msg,     \* the message the caller holds (the argument of serialize)
  result,  \* outcome of the last deserialize call
  line     \* source line that ended the last deserialize call, 0 if none

vars == <<pc, data, arg, msg, result, line>>

Init ==
  /\ result = NoResult
  /\ line = 0
  /\ arg = NoDoc
  /\ \/ /\ pc = "doc"
        /\ data \in Documents
        /\ msg = NoMessage
     \/ /\ pc = "msg"
        /\ data = NoDoc
        /\ msg \in Messages

\* The caller passes the document it holds to deserialize.
Deserialize ==
  /\ pc \in {"doc", "serialized", "deserialized"}
  /\ LET r == deserialize(data)
     IN /\ result' = r.result
        /\ data' = r.data
        /\ line' = r.line
  /\ arg' = data
  /\ pc' = CASE pc = "doc" -> "deserialized"
             [] pc = "deserialized" -> "repeated"
             [] pc = "serialized" -> "roundtrip"
  /\ UNCHANGED msg

\* The caller passes the message it holds to serialize.
Serialize ==
  /\ pc = "msg"
  /\ data' = serialize(msg)
  /\ pc' = "serialized"
  /\ UNCHANGED <<arg, msg, result, line>>

Next == Deserialize \/ Serialize

Spec == Init /\ [][Next]_vars

\* ----------------------------------------------------------------------
\* Properties
\* ----------------------------------------------------------------------

\* A deserialize call has been made; arg is the document it was given.
Called == pc \in {"deserialized", "repeated", "roundtrip"}

\* The document carries one of the nine tag strings.
KnownTag(d) ==
  /\ FIELD_MSG_TYPE \in DOMAIN d
  /\ d[FIELD_MSG_TYPE].kind = "str"
  /\ d[FIELD_MSG_TYPE].val \in MessageType

\* The class registered for the tag of a document with a known tag.
VariantOf(d) == message_type_map[d[FIELD_MSG_TYPE].val]

\* The fields of a class that the caller of create must give.
Required(c) == Fields(c) \ (Defaults(c) \cup {"type", "version"})

\* C1 - Round trip: deserialize(serialize(m)) succeeds and returns a
\* message equal to m, for every message m.
RoundTrip == pc = "roundtrip" => result = Return(msg)

\* C2 - Unknown tag: a document whose `type` is a string that is not one
\* of the nine tags makes deserialize fail with UnknownMessageTypeError.
UnknownTagRaisesUnknownMessageType ==
  (/\ Called
   /\ FIELD_MSG_TYPE \in DOMAIN arg
   /\ arg[FIELD_MSG_TYPE].kind = "str"
   /\ arg[FIELD_MSG_TYPE].val \notin MessageType)
  => result = Raise("UnknownMessageTypeError")

\* C3 - Required-field omission: a document with a known tag that lacks a
\* required field of the variant makes deserialize fail with
\* InvalidMessageSchemaError.
MissingRequiredRaisesInvalidSchema ==
  (/\ Called
   /\ KnownTag(arg)
   /\ ~(Required(VariantOf(arg)) \subseteq DOMAIN arg))
  => result = Raise("InvalidMessageSchemaError")

\* C4 - Missing discriminator: a document without a `type` key, whatever
\* its other keys, makes deserialize fail with InvalidMessageSchemaError at
\* the first statement, before the tag is looked at and with the document
\* untouched.
MissingTypeRaisesInvalidSchema ==
  (Called /\ FIELD_MSG_TYPE \notin DOMAIN arg)
  => /\ result = Raise("InvalidMessageSchemaError")
     /\ line = 177
     /\ data = arg

\* Witness of C4: deserialize was called on a document that has no `type`
\* but has `version` and an undeclared key.
MissingTypeWitness ==
  /\ Called
  /\ FIELD_MSG_TYPE \notin DOMAIN arg
  /\ {"version", UndeclaredKey} \subseteq DOMAIN arg
  /\ result.exc = "InvalidMessageSchemaError"

\* C5 - Variant dispatch: a well-formed document with a known tag t, a
\* `version` key and the fields of the variant deserializes into a message
\* of the class registered for t whose `type` is the member t.
VariantDispatch ==
  (/\ Called
   /\ KnownTag(arg)
   /\ "version" \in DOMAIN arg
   /\ Required(VariantOf(arg)) \subseteq DOMAIN arg
   /\ DOMAIN arg \subseteq Fields(VariantOf(arg)))
  => /\ result.exc = ""
     /\ result.value.cls = VariantOf(arg)
     /\ result.value.fields["type"] = Member(arg[FIELD_MSG_TYPE].val)

\* C6 - Optional-field omission: serialize(m) has no key for an optional
\* field of m whose value is None and has a key for every other field.
SerializeOmitsAbsentOptionals ==
  pc = "serialized" =>
    \A f \in Fields(msg.cls) :
      IF f \in Defaults(msg.cls) /\ msg.fields[f] = None
        THEN f \notin DOMAIN data
        ELSE f \in DOMAIN data

\* C7 - Permissive extra keys: when a document with a known tag
\* deserializes, the same document with one more key that the variant
\* does not declare deserializes to the same message.
ExtraKeysIgnored ==
  (Called /\ KnownTag(arg) /\ result.exc = "")
  => \A k \in Keys \ (Fields(VariantOf(arg)) \cup DOMAIN arg) :
       \A v \in Vals :
         deserialize(arg @@ (k :> v)).result = result

\* The tags of the variants said to carry the client/app identity pair.
IdentityTags == {"ahb", "con", "acc", "cap", "app", "lcy"}

IdentityKeys == {"client", "app"}

\* C8 - Identity-mixin independence: for each identity variant, a document
\* with the other required fields and any combination of `client` and
\* `app` deserializes, and the message has the identity values given and
\* None for those not given.
IdentityIndependent ==
  (/\ Called
   /\ KnownTag(arg)
   /\ arg[FIELD_MSG_TYPE].val \in IdentityTags
   /\ (DOMAIN arg) \ (IdentityKeys \cup {"version"})
        = {"type"} \cup (Required(VariantOf(arg)) \ IdentityKeys))
  => /\ result.exc = ""
     /\ \A i \in IdentityKeys :
          /\ i \in DOMAIN result.value.fields
          /\ result.value.fields[i] = IF i \in DOMAIN arg THEN arg[i] ELSE None

\* C9 - Purity: a call leaves the document it was given unchanged, the
\* message given to serialize is still a message of the variant
\* constructors, and repeating the call on the same document gives the
\* same outcome.
CodecIsPure ==
  /\ Called => data = arg
  /\ Called => deserialize(data).result = result
  /\ pc \in {"serialized", "roundtrip"} => msg \in Messages

\* C10 - Tag exhaustiveness: the registry has one entry per member of
\* MessageType and no other, distinct tags have distinct classes, the class
\* registered under t has t as its class-level type, every call on a
\* document with a known tag reaches the create call, and the
\* 'unrecognized' raise of deserialize is never reached.
TagExhaustive ==
  /\ DOMAIN message_type_map = MessageType
  /\ \A s, t \in DOMAIN message_type_map :
       s # t => message_type_map[s] # message_type_map[t]
  /\ \A t \in DOMAIN message_type_map : ClassType(message_type_map[t]) = t
  /\ (Called /\ KnownTag(arg)) => line = 189
  /\ line # 185

\* Witness of C10: deserialize looked a known tag up in the registry and
\* built the message of the registered class.
TagLookupWitness ==
  /\ Called
  /\ KnownTag(arg)
  /\ line = 189
  /\ result.exc = ""
  /\ result.value.cls = VariantOf(arg)

====
